---- MODULE Spec2Model ----
(***************************************************************************)
(* Versioned-content engine of the notebook server: the Repository Store   *)
(* (backend/src/services/gitService.ts, one git repository per notebook),  *)
(* the Metadata Index (Notebook / Branch / Commit documents) and the       *)
(* request handlers that sequence the two (commitController.ts,            *)
(* branchController.ts, notebookController, notebook.routes.ts).           *)
(*                                                                         *)
(* Every handler is an async function; it can be interleaved with other    *)
(* requests at each await.  A handler is modelled as a chain of steps, one *)
(* per await that touches shared state; index reads at the head of a       *)
(* handler are taken in its first step.  Spec interleaves two requests,    *)
(* SpecSeq runs the same steps one request at a time.                      *)
(***************************************************************************)
EXTENDS Integers, Sequences, FiniteSets, TLC

\* Cap on the number of commits one repository may hold (seed included).
MaxCommits == 3

\* Cap on the number of requests admitted while requests run concurrently.
MaxRequests == 3

Reqs == {"r1", "r2"}
NotebookIds == {"n1"}
Locs == {"L1"}
\* The notebooks that forks create, in the order their identifiers are
\* generated, and the location a fork gets: the reading of the clock, in
\* milliseconds, when the fork is made.  The forks of one behaviour fall into
\* one millisecond, so there is one reading.
ForkIdSeq == <<"n2", "n3">>
ForkIds == {ForkIdSeq[i] : i \in 1..Len(ForkIdSeq)}
ForkLocs == {"L2"}
AllLocs == Locs \cup ForkLocs
BranchNames == {"main", "exp"}
UserPaths == {"a.md", "b.md"}
ReadmePath == "README.md"
AllPaths == UserPaths \cup {ReadmePath}
Contents == {"v1", "v2"}
SeedContent == "# Notebook\n\nInitial commit"
Absent == "<absent>"
SystemIdentity == "NoteVerse System"
UserOf == [r \in Reqs |-> IF r = "r1" THEN "alice" ELSE "bob"]

NoLoc == "<none>"
NoName == "<none>"

\* Request bodies as they arrive: a list of file entries whose path or
\* content may be the empty string or missing altogether.
MaxFiles == 2
Missing == "<missing>"
RawPaths == {"a.md", "", Missing}
RawContents == {"v1", "", Missing}
RawEntries == [path : RawPaths, content : RawContents]
RawFiles == UNION {[1..n -> RawEntries] : n \in 0..MaxFiles}

(***************************************************************************)
(* Commit identifiers.  git log reports the full object name, while the    *)
(* summary line printed by git commit, from which simple-git fills         *)
(* CommitResult.commit, carries the abbreviated name.  Both resolve to the *)
(* same commit; as strings they differ.  A commit is numbered by its       *)
(* position in the repository's object list.                               *)
(***************************************************************************)
NoHash == [id |-> 0, abbrev |-> FALSE]
FullHash(k) == [id |-> k, abbrev |-> FALSE]
ShortHash(k) == [id |-> k, abbrev |-> TRUE]
Resolve(h) == h.id

EmptyTree == [p \in AllPaths |-> Absent]
NoRefs == [b \in BranchNames |-> 0]
NoFiles == [p \in UserPaths |-> Absent]

\* A location with no directory yet.
NoRepo ==
  [git |-> FALSE, objs |-> <<>>, refs |-> NoRefs, head |-> "main",
   index |-> EmptyTree, wt |-> EmptyTree, cfg |-> SystemIdentity]

(***************************************************************************)
(* Repository Store: pure functions on one repository.                     *)
(***************************************************************************)
isRepoInitialized(rp) == rp.git

HeadId(rp) == rp.refs[rp.head]

TreeOf(rp, k) == IF k = 0 THEN EmptyTree ELSE rp.objs[k].tree

\* git log --max-count=1 on HEAD: latest exists iff HEAD is born.
HasCommits(rp) == rp.git /\ HeadId(rp) # 0

\* git branch -M main: force-rename the current branch to main.
RenameToMain(rp) ==
  IF rp.head = "main" \/ HeadId(rp) = 0
  THEN [rp EXCEPT !.head = "main"]
  ELSE [rp EXCEPT !.refs = [b \in BranchNames |->
                              IF b = "main" THEN rp.refs[rp.head]
                              ELSE IF b = rp.head THEN 0 ELSE rp.refs[b]],
                  !.head = "main"]

\* git commit that reports a commit it never stored.
GitCommitNotStored(rp) ==
  IF rp.index = TreeOf(rp, HeadId(rp))
  THEN [ok |-> FALSE, id |-> 0, rp |-> rp]
  ELSE [ok |-> TRUE, id |-> Len(rp.objs) + 1, rp |-> rp]

\* git commit: a new commit of the whole index on the current branch, authored
\* by the configured identity; nothing is created when the index equals HEAD.
\* Each commit keeps the branch it advanced (on).
GitCommit(rp) ==
  IF rp.index = TreeOf(rp, HeadId(rp))
  THEN [ok |-> FALSE, id |-> 0, rp |-> rp]
  ELSE LET k == Len(rp.objs) + 1
       IN [ok |-> TRUE, id |-> k,
           rp |-> [rp EXCEPT
                     !.objs = Append(rp.objs, [parent |-> HeadId(rp),
                                               tree |-> rp.index,
                                               author |-> rp.cfg,
                                               on |-> rp.head]),
                     !.refs[rp.head] = k]]

\* initRepo, first half: mkdir, git init, system identity, branch -M main.
InitGit(rp) ==
  IF rp.git
  THEN RenameToMain([rp EXCEPT !.cfg = SystemIdentity])
  ELSE [rp EXCEPT !.git = TRUE, !.head = "main", !.cfg = SystemIdentity]

\* initRepo, second half: write and stage README.md, commit, branch -M main.
InitSeed(rp) ==
  LET staged == [rp EXCEPT !.wt[ReadmePath] = SeedContent,
                           !.index[ReadmePath] = SeedContent]
  IN RenameToMain(GitCommit(staged).rp)

initRepo(rp) == InitSeed(InitGit(rp))

\* Moving the working state from the current head to commit k under git's
\* two-way rule: a path whose content differs between the two trees is
\* updated when index and working file are unmodified, kept when the index
\* already holds the target content, and blocks the switch otherwise.
SwitchBlocked(rp, k) ==
  LET H == TreeOf(rp, HeadId(rp))
      T == TreeOf(rp, k)
  IN \E p \in AllPaths :
        /\ H[p] # T[p]
        /\ rp.index[p] # T[p]
        /\ ~(rp.index[p] = H[p] /\ rp.wt[p] = H[p])

SwitchTo(rp, b, k) ==
  LET H == TreeOf(rp, HeadId(rp))
      T == TreeOf(rp, k)
      moved(p) == H[p] # T[p] /\ rp.index[p] # T[p]
  IN [rp EXCEPT !.index = [p \in AllPaths |-> IF moved(p) THEN T[p] ELSE rp.index[p]],
                !.wt = [p \in AllPaths |-> IF moved(p) THEN T[p] ELSE rp.wt[p]],
                !.refs[b] = k,
                !.head = b]

\* GitService.checkoutBranch: skipped when there are no commits.
checkoutBranch(rp, b) ==
  IF ~HasCommits(rp) THEN [ok |-> TRUE, rp |-> rp]
  ELSE IF rp.refs[b] = 0 \/ SwitchBlocked(rp, rp.refs[b])
       THEN [ok |-> FALSE, rp |-> rp]
       ELSE [ok |-> TRUE, rp |-> SwitchTo(rp, b, rp.refs[b])]

\* A branch made at the source's tip without being checked out.
createBranchGitNoSwitch(rp, name, from) ==
  IF ~HasCommits(rp) THEN [res |-> "NoCommitsYet", rp |-> rp]
  ELSE IF rp.refs[name] # 0 THEN [res |-> "error", rp |-> rp]
  ELSE IF rp.refs[from] = 0 THEN [res |-> "NoCommitsYet", rp |-> rp]
  ELSE [res |-> "ok", rp |-> [rp EXCEPT !.refs[name] = rp.refs[from]]]

\* GitService.createBranch: git checkout -b name from.
createBranchGit(rp, name, from) ==
  IF ~HasCommits(rp) THEN [res |-> "NoCommitsYet", rp |-> rp]
  ELSE IF rp.refs[name] # 0 THEN [res |-> "error", rp |-> rp]
  ELSE IF rp.refs[from] = 0 THEN [res |-> "NoCommitsYet", rp |-> rp]
  ELSE IF SwitchBlocked(rp, rp.refs[from]) THEN [res |-> "error", rp |-> rp]
  ELSE [res |-> "ok", rp |-> SwitchTo(rp, name, rp.refs[from])]

\* Commit a is commit b or one of its ancestors.
RECURSIVE IsAncestor(_, _, _)
IsAncestor(rp, a, b) ==
  IF b = 0 THEN FALSE
  ELSE IF a = b THEN TRUE
  ELSE IsAncestor(rp, a, rp.objs[b].parent)

\* GitService.deleteBranch: git branch -d name.  Refused for a missing
\* branch, for the checked-out branch and for a branch not merged into HEAD.
deleteBranchGit(rp, name) ==
  IF ~rp.git \/ rp.refs[name] = 0 \/ rp.head = name
     \/ ~IsAncestor(rp, rp.refs[name], HeadId(rp))
  THEN [ok |-> FALSE, rp |-> rp]
  ELSE [ok |-> TRUE, rp |-> [rp EXCEPT !.refs[name] = 0]]

\* fs.writeFile for each file of the request.
WriteFiles(rp, files) ==
  [rp EXCEPT !.wt = [p \in AllPaths |->
                       IF p \in UserPaths /\ files[p] # Absent THEN files[p]
                       ELSE rp.wt[p]]]

\* git add <paths>: fails when a path is neither in the working tree nor in
\* the index.
AddFails(rp, files) ==
  \E p \in UserPaths : files[p] # Absent /\ rp.wt[p] = Absent /\ rp.index[p] = Absent

GitAdd(rp, files) ==
  [rp EXCEPT !.index = [p \in AllPaths |->
                          IF p \in UserPaths /\ files[p] # Absent THEN rp.wt[p]
                          ELSE rp.index[p]]]

\* git status that reports every tracked path as staged.
StagedAllTracked(rp) == {p \in AllPaths : rp.index[p] # Absent}

\* git status: the staged paths are those whose index entry differs from HEAD.
Staged(rp) == {p \in AllPaths : rp.index[p] # TreeOf(rp, HeadId(rp))[p]}

\* git ls-tree -r --name-only ref, after the empty-repository guard.
PathsOf(t) == {p \in AllPaths : t[p] # Absent}


\* getCommitHistory('main', 1): simple-git turns { from: 'main' } into the
\* symmetric range main...HEAD, so a latest entry exists iff the tips of main
\* and HEAD differ; the call throws when either side does not resolve.
MainRangeHasLatest(rp) ==
  rp.refs["main"] # 0 /\ HeadId(rp) # 0 /\ rp.refs["main"] # HeadId(rp)

(***************************************************************************)
(* Metadata Index documents.                                               *)
(***************************************************************************)
NotebookDoc(n, l) == [id |-> n, gitRepoPath |-> l]

\* A default branch document written without its default flag.
DefaultBranchDocUnflagged(n) ==
  [id |-> 0, notebook |-> n, name |-> "main", isDefault |-> FALSE,
   lastCommitHash |-> NoHash]

\* Every document has its own _id: the default branch's is 0, a branch made
\* by createBranch gets the ordinal of the request that made it.
DefaultBranchDoc(n) ==
  [id |-> 0, notebook |-> n, name |-> "main", isDefault |-> TRUE,
   lastCommitHash |-> NoHash]

\* A branch document that does not take over the source's last commit.
NewBranchDocNoLast(n, name, last, id) ==
  [id |-> id, notebook |-> n, name |-> name, isDefault |-> FALSE,
   lastCommitHash |-> NoHash]

NewBranchDoc(n, name, last, id) ==
  [id |-> id, notebook |-> n, name |-> name, isDefault |-> FALSE,
   lastCommitHash |-> last]

\* branch is the name of the Branch document the request read, branchId that
\* document's _id, which is what the Commit document stores.
CommitDoc(n, b, id, hash, parent, user, files) ==
  [hash |-> hash, notebook |-> n, branch |-> b, branchId |-> id,
   parentHash |-> parent, author |-> user,
   filesChanged |-> {p \in UserPaths : files[p] # Absent}]

\* What GitService.commit returns as hash for the commit numbered k.
commitResultHash(k) == ShortHash(k)

VARIABLES notebooks, branches, commits, repo, req, issued, nreq

vars == <<notebooks, branches, commits, repo, req, issued, nreq>>

NoSnap ==
  [objs |-> 0, recs |-> 0, last |-> NoHash, clean |-> FALSE, same |-> FALSE,
   blocked |-> FALSE]

Idle ==
  [op |-> "none", pc |-> "idle", nb |-> NoName, branch |-> NoName, from |-> NoName,
   files |-> NoFiles, user |-> NoName, loc |-> NoLoc, parent |-> NoHash,
   hash |-> NoHash, srcLast |-> NoHash, result |-> "none", tree |-> {},
   snap |-> NoSnap, raw |-> <<>>, doc |-> 0, found |-> {}]

Init ==
  /\ notebooks = {}
  /\ branches = {}
  /\ commits = <<>>
  /\ repo = [l \in AllLocs |-> NoRepo]
  /\ req = [r \in Reqs |-> Idle]
  /\ issued = {}
  /\ nreq = 0

\* Index queries.
FindNotebook(n) == {d \in notebooks : d.id = n}
FindBranch(n, b) == {d \in branches : d.notebook = n /\ d.name = b}
LocOf(n) == (CHOOSE d \in notebooks : d.id = n).gitRepoPath
LastOf(n, b) == (CHOOSE d \in branches : d.notebook = n /\ d.name = b).lastCommitHash
IdOf(n, b) == (CHOOSE d \in branches : d.notebook = n /\ d.name = b).id

\* The handler has sent its response; what it leaves in the slot is the
\* outcome only.
Finished(q, res) ==
  [Idle EXCEPT !.op = q.op, !.pc = "done", !.nb = q.nb, !.branch = q.branch,
               !.result = res, !.tree = q.tree, !.raw = q.raw, !.found = q.found,
               !.snap.same = q.snap.same, !.snap.clean = q.snap.clean]

\* Admission of a request: counted against MaxRequests when requests
\* interleave, not counted when they run one at a time.
Admit(counted) ==
  IF counted THEN nreq < MaxRequests /\ nreq' = nreq + 1 ELSE nreq' = nreq

SetReq(r, q) == req' = [req EXCEPT ![r] = q]
SetRepo(l, rp) == repo' = [repo EXCEPT ![l] = rp]

OneFile(p, c) == [q \in UserPaths |-> IF q = p THEN c ELSE Absent]

\* Request payloads.  One request at a time: every non-empty set of files
\* with either content.  Interleaved requests: one file, one content.
ContentsOf(counted) == IF counted THEN {"v1"} ELSE Contents

CommitInputs(counted) ==
  IF counted
  THEN {OneFile(p, c) : p \in UserPaths, c \in ContentsOf(counted)}
  ELSE {f \in [UserPaths -> Contents \cup {Absent}] : \E p \in UserPaths : f[p] # Absent}

(***************************************************************************)
(* initRepo, wherever a handler runs it.                                   *)
(***************************************************************************)
AfterInit(op) ==
  CASE op = "CreateNotebook" -> "cn_branch"
    [] op = "CreateBranch" -> "cb_create"
    [] op = "SaveWorkingFile" -> "sf_boot"
    [] op = "Fork" -> "fk_count"
    [] OTHER -> "ft_list"

InitRepoGit(r) ==
  /\ req[r].pc = "init1"
  /\ SetRepo(req[r].loc, InitGit(repo[req[r].loc]))
  /\ SetReq(r, [req[r] EXCEPT !.pc = "init2"])
  /\ UNCHANGED <<notebooks, branches, commits, issued, nreq>>

InitRepoSeed(r) ==
  /\ req[r].pc = "init2"
  /\ Len(repo[req[r].loc].objs) < MaxCommits
  /\ SetRepo(req[r].loc, InitSeed(repo[req[r].loc]))
  /\ SetReq(r, [req[r] EXCEPT !.pc = AfterInit(req[r].op)])
  /\ UNCHANGED <<notebooks, branches, commits, issued, nreq>>

(***************************************************************************)
(* createNotebook                                                          *)
(***************************************************************************)
CreateNotebookStart(r, counted) ==
  /\ req[r].pc = "idle"
  /\ Admit(counted)
  /\ \E n \in NotebookIds \ issued, l \in Locs \ issued :
       /\ notebooks' = notebooks \cup {NotebookDoc(n, l)}
       /\ issued' = issued \cup {n, l}
       /\ SetReq(r, [Idle EXCEPT !.op = "CreateNotebook", !.pc = "init1",
                                 !.nb = n, !.loc = l, !.user = UserOf[r]])
  /\ UNCHANGED <<branches, commits, repo>>

CreateNotebookBranch(r) ==
  /\ req[r].pc = "cn_branch"
  /\ IF FindBranch(req[r].nb, "main") = {}
     THEN /\ branches' = branches \cup {DefaultBranchDoc(req[r].nb)}
          /\ SetReq(r, Finished(req[r], "ok"))
     ELSE /\ branches' = branches
          /\ SetReq(r, Finished(req[r], "error"))
  /\ UNCHANGED <<notebooks, commits, repo, issued, nreq>>


(***************************************************************************)
(* createCommit                                                            *)
(***************************************************************************)
\* What the caller can observe before the call: the repository's commit
\* count, the number of Commit documents and the branch's lastCommitHash.
Before(n, b) ==
  [NoSnap EXCEPT !.objs = Len(repo[LocOf(n)].objs), !.recs = Len(commits),
                 !.last = LastOf(n, b)]

CreateCommitBegin(r, counted, n, b, f) ==
  /\ req[r].pc = "idle"
  /\ Admit(counted)
  /\ LET q == [Idle EXCEPT !.op = "CreateCommit", !.nb = n, !.branch = b,
                           !.files = f, !.user = UserOf[r]]
     IN IF FindNotebook(n) = {} \/ FindBranch(n, b) = {}
        THEN SetReq(r, Finished(q, "NotFound"))
        ELSE /\ Len(repo[LocOf(n)].objs) < MaxCommits
             /\ SetReq(r, [q EXCEPT !.pc = "cc_checkout", !.loc = LocOf(n),
                                    !.doc = IdOf(n, b), !.snap = Before(n, b)])
  /\ UNCHANGED <<notebooks, branches, commits, repo, issued>>

CreateCommitStart(r, counted) ==
  \E n \in NotebookIds, b \in BranchNames, f \in CommitInputs(counted) :
     CreateCommitBegin(r, counted, n, b, f)

\* Lazy bootstrap, then the best-effort checkout whose failure is only logged.
CreateCommitCheckout(r) ==
  /\ req[r].pc = "cc_checkout"
  /\ LET rp0 == repo[req[r].loc]
         rp1 == IF isRepoInitialized(rp0) THEN rp0 ELSE initRepo(rp0)
         co == checkoutBranch(rp1, req[r].branch)
     IN /\ SetRepo(req[r].loc, co.rp)
        /\ SetReq(r, [req[r] EXCEPT !.pc = "cc_log", !.snap.blocked = ~co.ok])
  /\ UNCHANGED <<notebooks, branches, commits, issued, nreq>>

\* GitService.commit: git log for the parent.
CreateCommitLog(r) ==
  /\ req[r].pc = "cc_log"
  /\ LET rp == repo[req[r].loc]
     IN SetReq(r, [req[r] EXCEPT
                     !.pc = "cc_write",
                     !.parent = IF HasCommits(rp) THEN FullHash(HeadId(rp)) ELSE NoHash])
  /\ UNCHANGED <<notebooks, branches, commits, repo, issued, nreq>>

\* GitService.commit: the author goes into the repository's configuration,
\* then the files are written.  The two are one step: every step of another
\* request commutes with one of them.
CreateCommitWrite(r) ==
  /\ req[r].pc = "cc_write"
  /\ LET rp == repo[req[r].loc]
         f == req[r].files
         head == TreeOf(rp, HeadId(rp))
     IN /\ SetRepo(req[r].loc, WriteFiles([rp EXCEPT !.cfg = req[r].user], f))
        /\ SetReq(r, [req[r] EXCEPT
              !.pc = "cc_add",
              !.snap.same = \A p \in UserPaths : f[p] # Absent => rp.wt[p] = f[p],
              !.snap.clean = /\ rp.index = head
                             /\ \A p \in UserPaths : f[p] # Absent => head[p] = f[p]])
  /\ UNCHANGED <<notebooks, branches, commits, issued, nreq>>

CreateCommitAdd(r) ==
  /\ req[r].pc = "cc_add"
  /\ LET rp == repo[req[r].loc]
     IN IF AddFails(rp, req[r].files)
        THEN /\ repo' = repo
             /\ SetReq(r, Finished(req[r], "error"))
        ELSE /\ SetRepo(req[r].loc, GitAdd(rp, req[r].files))
             /\ SetReq(r, [req[r] EXCEPT !.pc = "cc_status"])
  /\ UNCHANGED <<notebooks, branches, commits, issued, nreq>>

CreateCommitStatus(r) ==
  /\ req[r].pc = "cc_status"
  /\ IF Staged(repo[req[r].loc]) = {}
     THEN SetReq(r, Finished(req[r], "NothingToCommit"))
     ELSE SetReq(r, [req[r] EXCEPT !.pc = "cc_commit"])
  /\ UNCHANGED <<notebooks, branches, commits, repo, issued, nreq>>

\* git commit.  When nothing is staged any more no commit is made and the
\* request ends in an error (simple-git yields an empty hash, which the
\* Commit schema rejects).
CreateCommitCommit(r) ==
  /\ req[r].pc = "cc_commit"
  /\ Len(repo[req[r].loc].objs) < MaxCommits
  /\ LET c == GitCommit(repo[req[r].loc])
     IN IF c.ok
        THEN /\ SetRepo(req[r].loc, c.rp)
             /\ SetReq(r, [req[r] EXCEPT !.pc = "cc_record",
                                         !.hash = commitResultHash(c.id)])
        ELSE /\ repo' = repo
             /\ SetReq(r, Finished(req[r], "error"))
  /\ UNCHANGED <<notebooks, branches, commits, issued, nreq>>

\* Commit.create
CreateCommitRecord(r) ==
  /\ req[r].pc = "cc_record"
  /\ commits' = Append(commits, CommitDoc(req[r].nb, req[r].branch, req[r].doc,
                                          req[r].hash, req[r].parent, req[r].user,
                                          req[r].files))
  /\ SetReq(r, [req[r] EXCEPT !.pc = "cc_save"])
  /\ UNCHANGED <<notebooks, branches, repo, issued, nreq>>

\* The Branch document the request read at its start, if it is still there.
OwnDoc(r) ==
  {d \in branches : d.notebook = req[r].nb /\ d.name = req[r].branch /\ d.id = req[r].doc}

\* branch.lastCommitHash = commitHash; branch.save(), which updates the
\* document by its _id and throws when it is gone.
CreateCommitSave(r) ==
  /\ req[r].pc = "cc_save"
  /\ IF OwnDoc(r) = {}
     THEN /\ branches' = branches
          /\ SetReq(r, Finished(req[r], "error"))
     ELSE /\ branches' = {IF d \in OwnDoc(r)
                          THEN [d EXCEPT !.lastCommitHash = req[r].hash]
                          ELSE d : d \in branches}
          /\ SetReq(r, Finished(req[r], "ok"))
  /\ UNCHANGED <<notebooks, commits, repo, issued, nreq>>

(***************************************************************************)
(* createCommit behind its validation chain (commit routes: the            *)
(* createCommitValidation middleware, then the handler's own checks).      *)
(***************************************************************************)
\* express-validator notEmpty(): the value, as a string, has length > 0.
notEmpty(v) == v \notin {"", Missing}

\* body('files').isArray({ min: 1 }), body('files.*.path').notEmpty(),
\* body('files.*.content').notEmpty(); the handler answers 400 when the
\* chain reported an error.
createCommitValidation(raw) ==
  /\ Len(raw) >= 1
  /\ \A i \in 1..Len(raw) : notEmpty(raw[i].path) /\ notEmpty(raw[i].content)

\* The handler's own loop: a falsy path, or a content that is undefined or
\* null, answers 400.
filesAccepted(raw) ==
  /\ Len(raw) >= 1
  /\ \A i \in 1..Len(raw) : raw[i].path \notin {"", Missing} /\ raw[i].content # Missing

\* A request body that is let through unexamined.
AcceptAll(raw) == TRUE

ValidRequest(raw) == createCommitValidation(raw) /\ filesAccepted(raw)

\* The files of a body as written to the working tree, in order.
LastEntry(raw, p) ==
  LET S == {i \in 1..Len(raw) : raw[i].path = p}
  IN IF S = {} THEN 0 ELSE CHOOSE i \in S : \A j \in S : j <= i

FilesOf(raw) ==
  [p \in UserPaths |-> IF LastEntry(raw, p) = 0 \/ raw[LastEntry(raw, p)].content = Missing
                        THEN Absent ELSE raw[LastEntry(raw, p)].content]

CreateCommitRequest(r) ==
  /\ req[r].pc = "idle"
  /\ Admit(FALSE)
  /\ \E n \in NotebookIds, b \in BranchNames, raw \in RawFiles :
       LET q == [Idle EXCEPT !.op = "CreateCommit", !.nb = n, !.branch = b,
                             !.files = FilesOf(raw), !.raw = raw, !.user = UserOf[r]]
       IN IF ~ValidRequest(raw)
          THEN SetReq(r, Finished(q, "ValidationFailed"))
          ELSE IF FindNotebook(n) = {} \/ FindBranch(n, b) = {}
          THEN SetReq(r, Finished(q, "NotFound"))
          ELSE /\ Len(repo[LocOf(n)].objs) < MaxCommits
               /\ SetReq(r, [q EXCEPT !.pc = "cc_checkout", !.loc = LocOf(n),
                                      !.doc = IdOf(n, b), !.snap = Before(n, b)])
  /\ UNCHANGED <<notebooks, branches, commits, repo, issued>>

(***************************************************************************)
(* createBranch                                                            *)
(***************************************************************************)
CreateBranchBegin(r, counted, n, name, from) ==
  /\ req[r].pc = "idle"
  /\ Admit(counted)
  /\ LET q == [Idle EXCEPT !.op = "CreateBranch", !.nb = n, !.branch = name,
                           !.from = from, !.user = UserOf[r]]
     IN IF FindBranch(n, name) # {}
        THEN SetReq(r, Finished(q, "AlreadyExists"))
        ELSE IF FindNotebook(n) = {} \/ FindBranch(n, from) = {}
        THEN SetReq(r, Finished(q, "NotFound"))
        ELSE SetReq(r, [q EXCEPT !.pc = "cb_boot", !.loc = LocOf(n), !.doc = nreq',
                                 !.srcLast = LastOf(n, from),
                                 !.snap = Before(n, from)])
  /\ UNCHANGED <<notebooks, branches, commits, repo, issued>>

CreateBranchStart(r, counted) ==
  \E n \in NotebookIds, name \in BranchNames, from \in BranchNames :
     CreateBranchBegin(r, counted, n, name, from)

\* "Ensure repo is initialized with at least one commit".
CreateBranchBoot(r) ==
  /\ req[r].pc = "cb_boot"
  /\ LET rp == repo[req[r].loc]
     IN IF isRepoInitialized(rp) /\ MainRangeHasLatest(rp)
        THEN SetReq(r, [req[r] EXCEPT !.pc = "cb_create"])
        ELSE SetReq(r, [req[r] EXCEPT !.pc = "init1"])
  /\ UNCHANGED <<notebooks, branches, commits, repo, issued, nreq>>

CreateBranchGit(r) ==
  /\ req[r].pc = "cb_create"
  /\ LET c == createBranchGit(repo[req[r].loc], req[r].branch, req[r].from)
     IN IF c.res = "ok"
        THEN /\ SetRepo(req[r].loc, c.rp)
             /\ SetReq(r, [req[r] EXCEPT !.pc = "cb_record"])
        ELSE /\ repo' = repo
             /\ SetReq(r, Finished(req[r], c.res))
  /\ UNCHANGED <<notebooks, branches, commits, issued, nreq>>

\* Branch.create on a collection without the unique index.
CreateBranchRecordNoIndex(r) ==
  /\ req[r].pc = "cb_record"
  /\ branches' = branches \cup
                   {NewBranchDoc(req[r].nb, req[r].branch, req[r].srcLast, req[r].doc)}
  /\ SetReq(r, Finished(req[r], "ok"))
  /\ UNCHANGED <<notebooks, commits, repo, issued, nreq>>

\* Branch.create; the unique (notebook, name) index rejects a duplicate.
CreateBranchRecord(r) ==
  /\ req[r].pc = "cb_record"
  /\ IF FindBranch(req[r].nb, req[r].branch) = {}
     THEN /\ branches' = branches \cup
                           {NewBranchDoc(req[r].nb, req[r].branch, req[r].srcLast, req[r].doc)}
          /\ SetReq(r, Finished(req[r], "ok"))
     ELSE /\ branches' = branches
          /\ SetReq(r, Finished(req[r], "error"))
  /\ UNCHANGED <<notebooks, commits, repo, issued, nreq>>


(***************************************************************************)
(* checkoutBranch (controller)                                             *)
(***************************************************************************)
CheckoutBegin(r, counted, n, b) ==
  /\ req[r].pc = "idle"
  /\ Admit(counted)
  /\ LET q == [Idle EXCEPT !.op = "CheckoutBranch", !.nb = n, !.branch = b,
                           !.user = UserOf[r]]
     IN IF FindBranch(n, b) = {} \/ FindNotebook(n) = {}
        THEN SetReq(r, Finished(q, "NotFound"))
        ELSE SetReq(r, [q EXCEPT !.pc = "co_checkout", !.loc = LocOf(n)])
  /\ UNCHANGED <<notebooks, branches, commits, repo, issued>>

CheckoutStart(r, counted) ==
  \E n \in NotebookIds, b \in BranchNames : CheckoutBegin(r, counted, n, b)

CheckoutGit(r) ==
  /\ req[r].pc = "co_checkout"
  /\ LET c == checkoutBranch(repo[req[r].loc], req[r].branch)
     IN /\ SetRepo(req[r].loc, c.rp)
        /\ SetReq(r, Finished(req[r], IF c.ok THEN "ok" ELSE "error"))
  /\ UNCHANGED <<notebooks, branches, commits, issued, nreq>>

(***************************************************************************)
(* POST /:id/files (save a working file)                                   *)
(***************************************************************************)
SaveFileBegin(r, counted, n, p, c, b) ==
  /\ req[r].pc = "idle"
  /\ Admit(counted)
  /\ LET q == [Idle EXCEPT !.op = "SaveWorkingFile", !.nb = n, !.branch = b,
                           !.files = OneFile(p, c), !.user = UserOf[r]]
     IN IF FindNotebook(n) = {}
        THEN SetReq(r, Finished(q, "NotFound"))
        ELSE SetReq(r, [q EXCEPT !.pc = "sf_boot", !.loc = LocOf(n)])
  /\ UNCHANGED <<notebooks, branches, commits, repo, issued>>

SaveFileStart(r, counted) ==
  \E n \in NotebookIds, p \in UserPaths, c \in ContentsOf(counted),
     b \in BranchNames \cup {NoName} : SaveFileBegin(r, counted, n, p, c, b)

\* Lazy bootstrap; with a branch in the request, a checkout whose failure is
\* only logged.
SaveFileBoot(r) ==
  /\ req[r].pc = "sf_boot"
  /\ LET rp == repo[req[r].loc]
     IN IF ~isRepoInitialized(rp)
        THEN /\ repo' = repo
             /\ SetReq(r, [req[r] EXCEPT !.pc = "init1"])
        ELSE /\ SetRepo(req[r].loc, IF req[r].branch = NoName THEN rp
                                    ELSE checkoutBranch(rp, req[r].branch).rp)
             /\ SetReq(r, [req[r] EXCEPT !.pc = "sf_write"])
  /\ UNCHANGED <<notebooks, branches, commits, issued, nreq>>

SaveFileWrite(r) ==
  /\ req[r].pc = "sf_write"
  /\ SetRepo(req[r].loc, WriteFiles(repo[req[r].loc], req[r].files))
  /\ SetReq(r, Finished(req[r], "ok"))
  /\ UNCHANGED <<notebooks, branches, commits, issued, nreq>>

(***************************************************************************)
(* getFileTree                                                             *)
(***************************************************************************)
FileTreeBegin(r, counted, n, ref) ==
  /\ req[r].pc = "idle"
  /\ Admit(counted)
  /\ LET q == [Idle EXCEPT !.op = "GetFileTree", !.nb = n, !.branch = ref,
                           !.user = UserOf[r]]
     IN IF FindNotebook(n) = {}
        THEN SetReq(r, Finished(q, "NotFound"))
        ELSE SetReq(r, [q EXCEPT !.pc = "ft_list", !.loc = LocOf(n),
                                 !.snap.objs = Len(repo[LocOf(n)].objs)])
  /\ UNCHANGED <<notebooks, branches, commits, repo, issued>>

FileTreeStart(r, counted) ==
  \E n \in NotebookIds, ref \in BranchNames : FileTreeBegin(r, counted, n, ref)

\* The controller turns 'main' (and 'master', and no ref) into HEAD.
commitRef(ref) == IF ref = "main" THEN "HEAD" ELSE ref

\* GitService.getFileTree after its bootstrap: the paths listed at the ref,
\* nothing when there is no commit or the ref does not resolve.
getFileTree(rp, ref) ==
  IF ~HasCommits(rp) THEN {}
  ELSE IF ref = "HEAD" THEN PathsOf(TreeOf(rp, HeadId(rp)))
  ELSE PathsOf(TreeOf(rp, rp.refs[ref]))

FileTreeList(r) ==
  /\ req[r].pc = "ft_list"
  /\ LET rp == repo[req[r].loc]
     IN IF ~isRepoInitialized(rp)
        THEN SetReq(r, [req[r] EXCEPT !.pc = "init1"])
        ELSE SetReq(r, Finished([req[r] EXCEPT
                                   !.tree = getFileTree(rp, commitRef(req[r].branch))],
                                "ok"))
  /\ UNCHANGED <<notebooks, branches, commits, repo, issued, nreq>>

(***************************************************************************)
(* getFileTree: the fold of the listed paths into a nested tree.  A path   *)
(* is the sequence of its parts, which is what split('/') makes of it and  *)
(* what join('/') is applied to; a level is the sequence of its nodes.     *)
(***************************************************************************)
\* Longest path, in parts, and longest listing that are folded.
MaxDepth == 3
MaxPaths == 3

Names == {"x", "y"}
TreePaths == UNION {[1..n -> Names] : n \in 1..MaxDepth}

IsPrefix(a, b) == Len(a) <= Len(b) /\ SubSeq(b, 1, Len(a)) = a

\* What git ls-tree -r --name-only can list: files of one tree, so no path
\* twice and no path that is a directory of another.
Listings ==
  {l \in UNION {[1..n -> TreePaths] : n \in 0..MaxPaths} :
     \A i \in 1..Len(l), j \in 1..Len(l) : i # j => ~IsPrefix(l[i], l[j])}

\* A search that never finds a node.
FindNodeNever(level, part) == 0

\* currentLevel.find((item) => item.name === part): its position, 0 for none.
FindNode(level, part) ==
  IF \E k \in 1..Len(level) : level[k].name = part
  THEN CHOOSE k \in 1..Len(level) :
         level[k].name = part /\ \A j \in 1..(k - 1) : level[j].name # part
  ELSE 0

NewNode(parts, i) ==
  [name |-> parts[i], path |-> SubSeq(parts, 1, i),
   type |-> IF i = Len(parts) THEN "file" ELSE "directory", children |-> <<>>]

\* The inner loop from part i on: the node is found or pushed, and the loop
\* goes on inside it when it is a directory, at the same level otherwise.
RECURSIVE InsertPath(_, _, _)
InsertPath(level, parts, i) ==
  IF i > Len(parts) THEN level
  ELSE LET k0 == FindNode(level, parts[i])
           lv == IF k0 = 0 THEN Append(level, NewNode(parts, i)) ELSE level
           k == IF k0 = 0 THEN Len(lv) ELSE k0
       IN IF i < Len(parts) /\ lv[k].type = "directory"
          THEN [lv EXCEPT ![k].children = InsertPath(lv[k].children, parts, i + 1)]
          ELSE InsertPath(lv, parts, i + 1)

RECURSIVE BuildFrom(_, _, _)
BuildFrom(tree, paths, n) ==
  IF n > Len(paths) THEN tree
  ELSE BuildFrom(InsertPath(tree, paths[n], 1), paths, n + 1)

buildTree(paths) == BuildFrom(<<>>, paths, 1)

(***************************************************************************)
(* deleteBranch                                                            *)
(***************************************************************************)
\* deleteBranch without its default-branch check.
DeleteBranchBeginAnyBranch(r, counted, n, b) ==
  /\ req[r].pc = "idle"
  /\ Admit(counted)
  /\ LET q == [Idle EXCEPT !.op = "DeleteBranch", !.nb = n, !.branch = b,
                           !.user = UserOf[r]]
     IN IF FindBranch(n, b) = {}
        THEN SetReq(r, Finished(q, "NotFound"))
        ELSE LET d == CHOOSE x \in FindBranch(n, b) : TRUE
             IN SetReq(r, [q EXCEPT
                             !.pc = "db_git", !.doc = d.id,
                             !.loc = IF FindNotebook(n) = {} THEN NoLoc ELSE LocOf(n)])
  /\ UNCHANGED <<notebooks, branches, commits, repo, issued>>

DeleteBranchBegin(r, counted, n, b) ==
  /\ req[r].pc = "idle"
  /\ Admit(counted)
  /\ LET q == [Idle EXCEPT !.op = "DeleteBranch", !.nb = n, !.branch = b,
                           !.user = UserOf[r]]
     IN IF FindBranch(n, b) = {}
        THEN SetReq(r, Finished(q, "NotFound"))
        ELSE LET d == CHOOSE x \in FindBranch(n, b) : TRUE
             IN IF d.isDefault
                THEN SetReq(r, Finished(q, "Refused"))
                ELSE SetReq(r, [q EXCEPT
                                  !.pc = "db_git", !.doc = d.id,
                                  !.loc = IF FindNotebook(n) = {} THEN NoLoc ELSE LocOf(n)])
  /\ UNCHANGED <<notebooks, branches, commits, repo, issued>>

DeleteBranchStart(r, counted) ==
  \E n \in NotebookIds, b \in BranchNames : DeleteBranchBegin(r, counted, n, b)

\* gitService.deleteBranch(name), when the notebook was found.
DeleteBranchGit(r) ==
  /\ req[r].pc = "db_git"
  /\ IF req[r].loc = NoLoc
     THEN /\ repo' = repo
          /\ SetReq(r, [req[r] EXCEPT !.pc = "db_record"])
     ELSE LET c == deleteBranchGit(repo[req[r].loc], req[r].branch)
          IN IF c.ok
             THEN /\ SetRepo(req[r].loc, c.rp)
                  /\ SetReq(r, [req[r] EXCEPT !.pc = "db_record"])
             ELSE /\ repo' = repo
                  /\ SetReq(r, Finished(req[r], "error"))
  /\ UNCHANGED <<notebooks, branches, commits, issued, nreq>>

\* A deletion that takes the branch's Commit documents with it.
DeleteBranchRecordCascade(r) ==
  /\ req[r].pc = "db_record"
  /\ branches' = {d \in branches :
                    ~(d.notebook = req[r].nb /\ d.name = req[r].branch /\ d.id = req[r].doc)}
  /\ commits' = SelectSeq(commits, LAMBDA c :
                    ~(c.notebook = req[r].nb /\ c.branchId = req[r].doc))
  /\ SetReq(r, Finished(req[r], "ok"))
  /\ UNCHANGED <<notebooks, repo, issued, nreq>>

\* branch.deleteOne(): removes the document read at the start, by its _id.
DeleteBranchRecord(r) ==
  /\ req[r].pc = "db_record"
  /\ branches' = {d \in branches :
                    ~(d.notebook = req[r].nb /\ d.name = req[r].branch /\ d.id = req[r].doc)}
  /\ SetReq(r, Finished(req[r], "ok"))
  /\ UNCHANGED <<notebooks, commits, repo, issued, nreq>>

(***************************************************************************)
(* deleteNotebook                                                          *)
(***************************************************************************)
\* Notebook.findByIdAndDelete, which hands back the document it removed.
DeleteNotebookStart(r, counted) ==
  /\ req[r].pc = "idle"
  /\ Admit(counted)
  /\ \E n \in NotebookIds :
       LET q == [Idle EXCEPT !.op = "DeleteNotebook", !.nb = n, !.user = UserOf[r]]
       IN IF FindNotebook(n) = {}
          THEN /\ notebooks' = notebooks
               /\ SetReq(r, Finished(q, "NotFound"))
          ELSE /\ notebooks' = notebooks \ FindNotebook(n)
               /\ SetReq(r, [q EXCEPT !.pc = "dn_branches", !.loc = LocOf(n)])
  /\ UNCHANGED <<branches, commits, repo, issued>>

\* Branch.deleteMany({ notebook: id })
DeleteNotebookBranches(r) ==
  /\ req[r].pc = "dn_branches"
  /\ branches' = {d \in branches : d.notebook # req[r].nb}
  /\ SetReq(r, Finished(req[r], "ok"))
  /\ UNCHANGED <<notebooks, commits, repo, issued, nreq>>

(***************************************************************************)
(* fork (POST /:id/fork)                                                   *)
(***************************************************************************)
\* The _id of the next forked notebook: ObjectIds are generated afresh.
NextForkId(used) ==
  ForkIdSeq[CHOOSE i \in 1..Len(ForkIdSeq) :
              /\ ForkIdSeq[i] \notin used
              /\ \A j \in 1..(i - 1) : ForkIdSeq[j] \in used]

\* Notebook.findById, then Notebook.create for the fork, whose repository
\* location is the current time in milliseconds.
ForkStart(r, counted) ==
  /\ req[r].pc = "idle"
  /\ Admit(counted)
  /\ \E n \in NotebookIds :
       LET q == [Idle EXCEPT !.op = "Fork", !.from = n, !.user = UserOf[r]]
       IN IF FindNotebook(n) = {}
          THEN /\ notebooks' = notebooks
               /\ issued' = issued
               /\ SetReq(r, Finished(q, "NotFound"))
          ELSE /\ ForkIds \ issued # {}
               /\ \E fl \in ForkLocs :
                    LET fn == NextForkId(issued)
                    IN /\ notebooks' = notebooks \cup {NotebookDoc(fn, fl)}
                       /\ issued' = issued \cup {fn, fl}
                       /\ SetReq(r, [q EXCEPT !.pc = "init1", !.nb = fn, !.loc = fl])
  /\ UNCHANGED <<branches, commits, repo>>

\* After initRepo: the fork counter and the activity entry, neither of which
\* touches notebooks' branches, commits or repositories.
ForkCount(r) ==
  /\ req[r].pc = "fk_count"
  /\ SetReq(r, Finished(req[r], "ok"))
  /\ UNCHANGED <<notebooks, branches, commits, repo, issued, nreq>>

(***************************************************************************)
(* getCommits and getCommitByHash                                          *)
(***************************************************************************)
\* The limit of a listing when the query names none.
DefaultLimit == 50

\* The filter of getCommits: no branch in the query, or a branch name
\* without a Branch document, leaves the notebook alone in the filter.
NoFilter == -1

BranchFilter(n, b) ==
  IF b = NoName \/ FindBranch(n, b) = {} THEN NoFilter ELSE IdOf(n, b)

\* Commit.find(filter).sort({ timestamp: -1 }).limit(limit): the positions of
\* the newest limit documents that match.
Matching(n, f) ==
  {i \in 1..Len(commits) :
     commits[i].notebook = n /\ (f = NoFilter \/ commits[i].branchId = f)}

getCommits(n, f, limit) ==
  {commits[i] : i \in {k \in Matching(n, f) :
                          Cardinality({j \in Matching(n, f) : j > k}) < limit}}

\* Commit.findOne({ notebook, hash }): the first document with that hash
\* string, none when there is no such document.
getCommitByHash(n, h) ==
  LET S == {i \in 1..Len(commits) : commits[i].notebook = n /\ commits[i].hash = h}
  IN IF S = {} THEN {} ELSE {commits[CHOOSE i \in S : \A j \in S : i <= j]}

Hashes == {FullHash(k) : k \in 1..MaxCommits} \cup {ShortHash(k) : k \in 1..MaxCommits}

\* Branch.findOne for the query's branch.
GetCommitsStart(r, counted) ==
  /\ req[r].pc = "idle"
  /\ Admit(counted)
  /\ \E n \in NotebookIds, b \in BranchNames \cup {NoName} :
       SetReq(r, [Idle EXCEPT !.op = "GetCommits", !.pc = "gc_find", !.nb = n,
                              !.branch = b, !.doc = BranchFilter(n, b),
                              !.user = UserOf[r]])
  /\ UNCHANGED <<notebooks, branches, commits, repo, issued>>

\* Commit.find
GetCommitsFind(r) ==
  /\ req[r].pc = "gc_find"
  /\ SetReq(r, Finished([req[r] EXCEPT
                           !.found = getCommits(req[r].nb, req[r].doc, DefaultLimit)],
                        "ok"))
  /\ UNCHANGED <<notebooks, branches, commits, repo, issued, nreq>>

GetCommitByHash(r, counted) ==
  /\ req[r].pc = "idle"
  /\ Admit(counted)
  /\ \E n \in NotebookIds, h \in Hashes :
       LET q == [Idle EXCEPT !.op = "GetCommitByHash", !.nb = n, !.hash = h,
                             !.found = getCommitByHash(n, h), !.user = UserOf[r]]
       IN SetReq(r, [Finished(q, IF q.found = {} THEN "NotFound" ELSE "ok")
                       EXCEPT !.hash = h])
  /\ UNCHANGED <<notebooks, branches, commits, repo, issued>>

(***************************************************************************)
(* getCommitDiff.  A diff text is the sequence of its lines, as split at   *)
(* the line breaks; the empty text is the empty sequence.  A line that     *)
(* starts with "diff --git" is the header of a file; path is what the      *)
(* handler's pattern /diff --git a\/(.+?) b\// captures from it, nothing    *)
(* when the pattern does not match.  Any other line is told apart by what  *)
(* it says.                                                                *)
(***************************************************************************)
\* diff --git a/p b/p
HeaderLine(p) == [kind |-> "diff --git", path |-> p, file |-> p]

\* diff --git "a/p" "b/p": git puts a path with a byte above 0x7f, a double
\* quote, a backslash or a control character in quotes (core.quotePath).
QuotedHeader(p) == [kind |-> "diff --git", path |-> NoName, file |-> p]

Line(k) == [kind |-> k, path |-> NoName, file |-> NoName]
Blank == Line("")

\* A file name that git quotes.
QuotedPaths == {"n~.md"}

gitHeader(p) == IF p \in QuotedPaths THEN QuotedHeader(p) ELSE HeaderLine(p)

\* git lists the changed paths in byte order.
PathOrder == <<"README.md", "a.md", "b.md">>

\* The part of git diff's output for one path whose content differs.
FileDiff(p, from, to) ==
  <<gitHeader(p)>>
  \o (IF from[p] = Absent THEN <<Line("new file mode")>>
      ELSE IF to[p] = Absent THEN <<Line("deleted file mode")>>
      ELSE <<>>)
  \o <<Line("index"), Line("---"), Line("+++"), Line("@@")>>

RECURSIVE DiffFrom(_, _, _)
DiffFrom(i, from, to) ==
  IF i > Len(PathOrder) THEN <<>>
  ELSE (IF from[PathOrder[i]] # to[PathOrder[i]]
        THEN FileDiff(PathOrder[i], from, to) ELSE <<>>)
       \o DiffFrom(i + 1, from, to)

\* git diff between two trees: nothing when they are equal, otherwise the
\* files' parts and, after the final line break, one empty line.
gitDiff(from, to) ==
  IF from = to THEN <<>> ELSE DiffFrom(1, from, to) \o <<Blank>>

\* The object name of git's empty tree.
EmptyTreeHash == [id |-> -1, abbrev |-> FALSE]

Resolves(rp, h) ==
  h = EmptyTreeHash \/ (rp.git /\ Resolve(h) \in 1..Len(rp.objs))

TreeAt(rp, h) == IF h = EmptyTreeHash THEN EmptyTree ELSE TreeOf(rp, Resolve(h))

\* GitService.getDiff inside the handler's try: the empty text when git
\* cannot resolve one of the two names.
getDiff(rp, from, to) ==
  IF Resolves(rp, from) /\ Resolves(rp, to)
  THEN gitDiff(TreeAt(rp, from), TreeAt(rp, to))
  ELSE <<>>

\* parseDiffByFile: fileMap.set for the segment that is open, if any.
SaveSegment(cur, seg, map) ==
  IF cur # NoName /\ Len(seg) > 0
  THEN [p \in DOMAIN map \cup {cur} |-> IF p = cur THEN seg ELSE map[p]]
  ELSE map

RECURSIVE ParseFrom(_, _, _, _, _)
ParseFrom(lines, i, cur, seg, map) ==
  IF i > Len(lines) THEN SaveSegment(cur, seg, map)
  ELSE IF lines[i].kind = "diff --git"
  THEN ParseFrom(lines, i + 1, lines[i].path, <<lines[i]>>, SaveSegment(cur, seg, map))
  ELSE IF cur # NoName
  THEN ParseFrom(lines, i + 1, cur, Append(seg, lines[i]), map)
  ELSE ParseFrom(lines, i + 1, cur, seg, map)

NoSegments == [p \in {} |-> <<>>]

parseDiffByFile(lines) ==
  IF Len(lines) = 0 THEN NoSegments
  ELSE ParseFrom(lines, 1, NoName, <<>>, NoSegments)

\* commit.filesChanged.map: one entry per file of the document, in the
\* document's order, with the file's segment or the empty text.
fileDiffs(fc, map) ==
  [i \in 1..Len(fc) |->
     [path |-> fc[i], diff |-> IF fc[i] \in DOMAIN map THEN map[fc[i]] ELSE <<>>]]

\* The files of a Commit document in the order the request listed them;
\* requests list their files in path order.
RECURSIVE ListFrom(_, _)
ListFrom(i, S) ==
  IF i > Len(PathOrder) THEN <<>>
  ELSE (IF PathOrder[i] \in S THEN <<PathOrder[i]>> ELSE <<>>) \o ListFrom(i + 1, S)

FilesChanged(c) == ListFrom(1, c.filesChanged)

\* Notebook.findById and Commit.findOne.
GetCommitDiffStart(r, counted) ==
  /\ req[r].pc = "idle"
  /\ Admit(counted)
  /\ \E n \in NotebookIds, h \in Hashes :
       LET q == [Idle EXCEPT !.op = "GetCommitDiff", !.nb = n, !.hash = h,
                             !.user = UserOf[r]]
       IN IF FindNotebook(n) = {} \/ getCommitByHash(n, h) = {}
          THEN SetReq(r, Finished(q, "NotFound"))
          ELSE SetReq(r, [q EXCEPT !.pc = "gd_diff", !.loc = LocOf(n),
                                   !.found = getCommitByHash(n, h)])
  /\ UNCHANGED <<notebooks, branches, commits, repo, issued>>

\* A handler that always diffs from the document's parentHash.
GetCommitDiffGitFromParent(r) ==
  /\ req[r].pc = "gd_diff"
  /\ LET c == CHOOSE x \in req[r].found : TRUE
         diff == getDiff(repo[req[r].loc], c.parentHash, req[r].hash)
         files == fileDiffs(FilesChanged(c), parseDiffByFile(diff))
     IN SetReq(r, [Finished(req[r], "ok") EXCEPT
                     !.hash = req[r].hash, !.parent = c.parentHash, !.raw = files])
  /\ UNCHANGED <<notebooks, branches, commits, repo, issued, nreq>>

\* The diff from the parent, or from the empty tree for a document without
\* parentHash, to the hash of the request; then the answer per file.
GetCommitDiffGit(r) ==
  /\ req[r].pc = "gd_diff"
  /\ LET c == CHOOSE x \in req[r].found : TRUE
         from == IF c.parentHash # NoHash THEN c.parentHash ELSE EmptyTreeHash
         diff == getDiff(repo[req[r].loc], from, req[r].hash)
         files == fileDiffs(FilesChanged(c), parseDiffByFile(diff))
     IN SetReq(r, [Finished(req[r], "ok") EXCEPT
                     !.hash = req[r].hash, !.parent = from, !.raw = files])
  /\ UNCHANGED <<notebooks, branches, commits, repo, issued, nreq>>

\* GitService.commit when its git log throws: the error is swallowed and the
\* commit goes on without a parent hash.
CreateCommitLogFails(r) ==
  /\ req[r].pc = "cc_log"
  /\ SetReq(r, [req[r] EXCEPT !.pc = "cc_write", !.parent = NoHash])
  /\ UNCHANGED <<notebooks, branches, commits, repo, issued, nreq>>

More(r, counted) ==
  \/ DeleteBranchStart(r, counted)
  \/ DeleteBranchGit(r)
  \/ DeleteBranchRecord(r)
  \/ DeleteNotebookStart(r, counted)
  \/ DeleteNotebookBranches(r)
  \/ ForkStart(r, counted)
  \/ ForkCount(r)

(***************************************************************************)
(* Request life cycle                                                      *)
(***************************************************************************)
\* The response has been delivered; the slot can take the next request.
Respond(r) ==
  /\ req[r].pc = "done"
  /\ SetReq(r, Idle)
  /\ UNCHANGED <<notebooks, branches, commits, repo, issued, nreq>>

\* A storage call of a request in flight throws (StorageUnavailable) or the
\* process dies: the handler stops where it is, leaving what it has written.
Fail(r) ==
  /\ req[r].pc \notin {"idle", "done"}
  /\ SetReq(r, Finished(req[r], "StorageUnavailable"))
  /\ UNCHANGED <<notebooks, branches, commits, repo, issued, nreq>>

Step(r, counted) ==
  \/ CreateNotebookStart(r, counted)
  \/ InitRepoGit(r)
  \/ InitRepoSeed(r)
  \/ CreateNotebookBranch(r)
  \/ CreateCommitStart(r, counted)
  \/ CreateCommitCheckout(r)
  \/ CreateCommitLog(r)
  \/ CreateCommitWrite(r)
  \/ CreateCommitAdd(r)
  \/ CreateCommitStatus(r)
  \/ CreateCommitCommit(r)
  \/ CreateCommitRecord(r)
  \/ CreateCommitSave(r)
  \/ CreateBranchStart(r, counted)
  \/ CreateBranchBoot(r)
  \/ CreateBranchGit(r)
  \/ CreateBranchRecord(r)
  \/ CheckoutStart(r, counted)
  \/ CheckoutGit(r)
  \/ SaveFileStart(r, counted)
  \/ SaveFileBoot(r)
  \/ SaveFileWrite(r)
  \/ FileTreeStart(r, counted)
  \/ FileTreeList(r)
  \/ Respond(r)

\* Two requests in flight, each step of one interleaved with the other's, and
\* storage failures.
Next == \E r \in Reqs : Step(r, TRUE) \/ Fail(r)

Spec == Init /\ [][Next]_vars

\* One request at a time, run to completion, no storage failure.
NextSeq == Step("r1", FALSE)

SpecSeq == Init /\ [][NextSeq]_vars


(***************************************************************************)
(* Two createCommit requests with disjoint file sets, issued against a     *)
(* notebook that createNotebook has just set up; one request per slot.     *)
(***************************************************************************)
RacePath == [r \in Reqs |-> IF r = "r1" THEN "a.md" ELSE "b.md"]

RaceInit ==
  /\ notebooks = {NotebookDoc("n1", "L1")}
  /\ branches = {DefaultBranchDoc("n1")}
  /\ commits = <<>>
  /\ repo = [l \in AllLocs |-> IF l \in Locs THEN initRepo(NoRepo) ELSE NoRepo]
  /\ req = [r \in Reqs |-> Idle]
  /\ issued = {"n1", "L1"}
  /\ nreq = 0

RaceCommitStart(r) ==
  \E c \in Contents : CreateCommitBegin(r, FALSE, "n1", "main", OneFile(RacePath[r], c))

NextRace ==
  \E r \in Reqs :
     \/ RaceCommitStart(r)
     \/ CreateCommitCheckout(r)
     \/ CreateCommitLog(r)
     \/ CreateCommitWrite(r)
     \/ CreateCommitAdd(r)
     \/ CreateCommitStatus(r)
     \/ CreateCommitCommit(r)
     \/ CreateCommitRecord(r)
     \/ CreateCommitSave(r)

SpecRace == RaceInit /\ [][NextRace]_vars

(***************************************************************************)
(* The handlers that write notebooks and branches (createNotebook,         *)
(* createBranch, deleteBranch, createCommit, deleteNotebook), two requests *)
(* interleaved.  createNotebook is bounded by the identifiers there are;   *)
(* the other requests are counted.                                         *)
(***************************************************************************)
NextIndex ==
  \E r \in Reqs :
     \/ CreateNotebookStart(r, FALSE)
     \/ InitRepoGit(r)
     \/ InitRepoSeed(r)
     \/ CreateNotebookBranch(r)
     \/ CreateBranchStart(r, TRUE)
     \/ CreateBranchBoot(r)
     \/ CreateBranchGit(r)
     \/ CreateBranchRecord(r)
     \/ DeleteBranchStart(r, TRUE)
     \/ DeleteBranchGit(r)
     \/ DeleteBranchRecord(r)
     \/ CreateCommitStart(r, TRUE)
     \/ CreateCommitCheckout(r)
     \/ CreateCommitLog(r)
     \/ CreateCommitWrite(r)
     \/ CreateCommitAdd(r)
     \/ CreateCommitStatus(r)
     \/ CreateCommitCommit(r)
     \/ CreateCommitRecord(r)
     \/ CreateCommitSave(r)
     \/ DeleteNotebookStart(r, TRUE)
     \/ DeleteNotebookBranches(r)
     \/ Respond(r)

SpecIndex == Init /\ [][NextIndex]_vars

(***************************************************************************)
(* Every handler, fork included, one request at a time, where any step of  *)
(* a request may fail.  createNotebook and fork are bounded by the         *)
(* identifiers there are; the other requests are counted.                  *)
(***************************************************************************)
NextFail ==
  \/ CreateNotebookStart("r1", FALSE)
  \/ ForkStart("r1", FALSE)
  \/ Step("r1", TRUE)
  \/ More("r1", TRUE)
  \/ Fail("r1")

SpecFail == Init /\ [][NextFail]_vars

(***************************************************************************)
(* A createNotebook that fails after Notebook.create, in initRepo or in    *)
(* Branch.create, and the requests that can follow it, one at a time and   *)
(* without limit.  With no Branch document in the index createCommit,      *)
(* createBranch, checkoutBranch and deleteBranch end in their first step.  *)
(* The server keeps serving: a step that can be taken is eventually taken. *)
(***************************************************************************)
\* initRepo or Branch.create throws inside createNotebook.
FailSetup(r) == req[r].op = "CreateNotebook" /\ Fail(r)

NextRetry ==
  \/ CreateNotebookStart("r1", FALSE)
  \/ InitRepoGit("r1")
  \/ InitRepoSeed("r1")
  \/ FailSetup("r1")
  \/ CreateCommitStart("r1", FALSE)
  \/ CreateBranchStart("r1", FALSE)
  \/ CheckoutStart("r1", FALSE)
  \/ DeleteBranchStart("r1", FALSE)
  \/ SaveFileStart("r1", FALSE)
  \/ SaveFileBoot("r1")
  \/ SaveFileWrite("r1")
  \/ FileTreeStart("r1", FALSE)
  \/ FileTreeList("r1")
  \/ ForkStart("r1", FALSE)
  \/ ForkCount("r1")
  \/ Respond("r1")

SpecRetry == Init /\ [][NextRetry]_vars /\ WF_vars(NextRetry)

(***************************************************************************)
(* Repository locations: createNotebook, fork, createCommit and the        *)
(* fixNotebookPaths script, one at a time.  The script names a location    *)
(* after its notebook's identifier, so the identifiers are locations too.  *)
(***************************************************************************)
PathLocs == AllLocs \cup NotebookIds \cup ForkIds

PathInit ==
  /\ notebooks = {}
  /\ branches = {}
  /\ commits = <<>>
  /\ repo = [l \in PathLocs |-> NoRepo]
  /\ req = [r \in Reqs |-> Idle]
  /\ issued = {}
  /\ nreq = 0

\* One round of the script's loop, for a notebook whose gitRepoPath is not
\* its identifier: the directory is moved when the old one exists and the
\* new one does not, and the document gets the identifier as its location.
FixNotebookPath(r) ==
  /\ req[r].pc = "idle"
  /\ \E d \in notebooks :
       /\ d.gitRepoPath # d.id
       /\ notebooks' = (notebooks \ {d}) \cup {NotebookDoc(d.id, d.id)}
       /\ IF isRepoInitialized(repo[d.gitRepoPath]) /\ ~isRepoInitialized(repo[d.id])
          THEN repo' = [repo EXCEPT ![d.id] = repo[d.gitRepoPath],
                                    ![d.gitRepoPath] = NoRepo]
          ELSE repo' = repo
  /\ UNCHANGED <<branches, commits, req, issued, nreq>>

NextPath ==
  \/ CreateNotebookStart("r1", FALSE)
  \/ InitRepoGit("r1")
  \/ InitRepoSeed("r1")
  \/ CreateNotebookBranch("r1")
  \/ ForkStart("r1", FALSE)
  \/ ForkCount("r1")
  \/ FixNotebookPath("r1")
  \/ CreateCommitStart("r1", TRUE)
  \/ CreateCommitCheckout("r1")
  \/ CreateCommitLog("r1")
  \/ CreateCommitWrite("r1")
  \/ CreateCommitAdd("r1")
  \/ CreateCommitStatus("r1")
  \/ CreateCommitCommit("r1")
  \/ CreateCommitRecord("r1")
  \/ CreateCommitSave("r1")
  \/ Respond("r1")

SpecPath == PathInit /\ [][NextPath]_vars

(***************************************************************************)
(* createCommit, with a git log that may throw, and createBranch, and      *)
(* getCommitDiff on the Commit documents they leave, one request at a      *)
(* time; bounded by the commits a repository may hold.                     *)
(***************************************************************************)
NextDiff ==
  \/ CreateNotebookStart("r1", FALSE)
  \/ InitRepoGit("r1")
  \/ InitRepoSeed("r1")
  \/ CreateNotebookBranch("r1")
  \/ CreateCommitStart("r1", FALSE)
  \/ CreateCommitCheckout("r1")
  \/ CreateCommitLog("r1")
  \/ CreateCommitLogFails("r1")
  \/ CreateCommitWrite("r1")
  \/ CreateCommitAdd("r1")
  \/ CreateCommitStatus("r1")
  \/ CreateCommitCommit("r1")
  \/ CreateCommitRecord("r1")
  \/ CreateCommitSave("r1")
  \/ CreateBranchStart("r1", FALSE)
  \/ CreateBranchBoot("r1")
  \/ CreateBranchGit("r1")
  \/ CreateBranchRecord("r1")
  \/ GetCommitDiffStart("r1", FALSE)
  \/ GetCommitDiffGit("r1")
  \/ Respond("r1")

SpecDiff == Init /\ [][NextDiff]_vars

(***************************************************************************)
(* The split of a diff text on its own: a text and the files of a Commit   *)
(* document are handed in (raw and tree of the slot), the answer per file  *)
(* is computed.  The texts are those in which every file has at most one   *)
(* header, as in git's output, with any lines around them.                 *)
(***************************************************************************)
\* Longest diff text, in lines.
MaxLines == 4

DiffPaths == {"a.md", "b.md"} \cup QuotedPaths

DiffLines == {gitHeader(p) : p \in DiffPaths} \cup {Line("@@"), Blank}

DiffTexts ==
  {t \in UNION {[1..n -> DiffLines] : n \in 0..MaxLines} :
     \A i \in 1..Len(t), j \in 1..Len(t) :
        (i # j /\ t[i].kind = "diff --git" /\ t[j].kind = "diff --git")
           => t[i].file # t[j].file}

FileLists ==
  {l \in UNION {[1..n -> DiffPaths] : n \in 0..2} :
     \A i \in 1..Len(l), j \in 1..Len(l) : i # j => l[i] # l[j]}

ParseInit ==
  /\ notebooks = {}
  /\ branches = {}
  /\ commits = <<>>
  /\ repo = [l \in AllLocs |-> NoRepo]
  /\ \E t \in DiffTexts, fc \in FileLists :
       req = [r \in Reqs |-> IF r = "r1"
                              THEN [Idle EXCEPT !.op = "GetCommitDiff", !.pc = "gd_parse",
                                                !.raw = t, !.tree = fc]
                              ELSE Idle]
  /\ issued = {}
  /\ nreq = 0

GetCommitDiffParse(r) ==
  /\ req[r].pc = "gd_parse"
  /\ SetReq(r, [Finished(req[r], "ok") EXCEPT
                  !.found = fileDiffs(req[r].tree, parseDiffByFile(req[r].raw))])
  /\ UNCHANGED <<notebooks, branches, commits, repo, issued, nreq>>

NextParse == GetCommitDiffParse("r1")

SpecParse == ParseInit /\ [][NextParse]_vars

(***************************************************************************)
(* The tree fold on its own: a listing is handed in, the tree is built.    *)
(***************************************************************************)
TreeInit ==
  /\ notebooks = {}
  /\ branches = {}
  /\ commits = <<>>
  /\ repo = [l \in AllLocs |-> NoRepo]
  /\ \E l \in Listings :
       req = [r \in Reqs |-> IF r = "r1"
                              THEN [Idle EXCEPT !.op = "GetFileTree", !.pc = "ft_build",
                                                !.raw = l]
                              ELSE Idle]
  /\ issued = {}
  /\ nreq = 0

FileTreeBuild(r) ==
  /\ req[r].pc = "ft_build"
  /\ SetReq(r, [Finished(req[r], "ok") EXCEPT !.found = buildTree(req[r].raw)])
  /\ UNCHANGED <<notebooks, branches, commits, repo, issued, nreq>>

NextTree == FileTreeBuild("r1")

SpecTree == TreeInit /\ [][NextTree]_vars

(***************************************************************************)
(* The history of a notebook and its readers: every handler that the       *)
(* Commit documents could depend on, getCommits and getCommitByHash, one   *)
(* request at a time, where any step of a request may fail.  createBranch, *)
(* createCommit and file-save requests are counted; the others are bounded *)
(* by what they can change.                                                *)
(***************************************************************************)
NextHist ==
  \/ CreateNotebookStart("r1", FALSE)
  \/ InitRepoGit("r1")
  \/ InitRepoSeed("r1")
  \/ CreateNotebookBranch("r1")
  \/ CreateBranchStart("r1", TRUE)
  \/ CreateBranchBoot("r1")
  \/ CreateBranchGit("r1")
  \/ CreateBranchRecord("r1")
  \/ CreateCommitStart("r1", TRUE)
  \/ CreateCommitCheckout("r1")
  \/ CreateCommitLog("r1")
  \/ CreateCommitWrite("r1")
  \/ CreateCommitAdd("r1")
  \/ CreateCommitStatus("r1")
  \/ CreateCommitCommit("r1")
  \/ CreateCommitRecord("r1")
  \/ CreateCommitSave("r1")
  \/ CheckoutStart("r1", FALSE)
  \/ CheckoutGit("r1")
  \/ SaveFileStart("r1", TRUE)
  \/ SaveFileBoot("r1")
  \/ SaveFileWrite("r1")
  \/ DeleteBranchStart("r1", FALSE)
  \/ DeleteBranchGit("r1")
  \/ DeleteBranchRecord("r1")
  \/ DeleteNotebookStart("r1", FALSE)
  \/ DeleteNotebookBranches("r1")
  \/ GetCommitsStart("r1", FALSE)
  \/ GetCommitsFind("r1")
  \/ GetCommitByHash("r1", FALSE)
  \/ Respond("r1")
  \/ Fail("r1")

SpecHist == Init /\ [][NextHist]_vars

(***************************************************************************)
(* createNotebook, then createCommit requests with arbitrary bodies, one   *)
(* at a time.                                                              *)
(***************************************************************************)
NextVal ==
  \/ CreateNotebookStart("r1", FALSE)
  \/ InitRepoGit("r1")
  \/ InitRepoSeed("r1")
  \/ CreateNotebookBranch("r1")
  \/ CreateCommitRequest("r1")
  \/ CreateCommitCheckout("r1")
  \/ CreateCommitLog("r1")
  \/ CreateCommitWrite("r1")
  \/ CreateCommitAdd("r1")
  \/ CreateCommitStatus("r1")
  \/ CreateCommitCommit("r1")
  \/ CreateCommitRecord("r1")
  \/ CreateCommitSave("r1")
  \/ Respond("r1")

SpecVal == Init /\ [][NextVal]_vars

(***************************************************************************)
(* Properties                                                              *)
(***************************************************************************)
InFlight(r) == req[r].pc \notin {"idle", "done"}

\* Request r of kind op sends its response in this step.
Completes(r, op) == req[r].op = op /\ InFlight(r) /\ req'[r].pc = "done"

RepoOf(n) == repo[LocOf(n)]

RecordIds == 1..Len(commits)

\* The paths whose content commit k changed with respect to its parent.
ChangedPaths(rp, k) ==
  {p \in AllPaths : rp.objs[k].tree[p] # TreeOf(rp, rp.objs[k].parent)[p]}

\* C1: every Commit document carries a hash that identifies a commit present
\* in its notebook's repository, in every reachable state, storage failures
\* at any step included (the repository may be ahead of the index, never the
\* index ahead of the repository).
C1_ContentBeforeIndex ==
  \A i \in RecordIds :
     Resolve(commits[i].hash) \in 1..Len(RepoOf(commits[i].notebook).objs)

\* A Commit document exists while the repository also holds a commit made by
\* a createCommit that stopped before writing its document.
C1_Witness ==
  /\ commits # <<>>
  /\ \E k \in 1..Len(repo["L1"].objs) :
        /\ repo["L1"].objs[k].author # SystemIdentity
        /\ \A i \in RecordIds : Resolve(commits[i].hash) # k
  /\ \E r \in Reqs : req[r].result = "StorageUnavailable"

\* C2: with concurrent createCommit requests on one branch whose file sets are
\* pairwise disjoint, every repository commit changes the files of exactly one
\* request, and once all have responded there is one commit and one Commit
\* document per request.
C2_DisjointCommitsStaySeparate ==
  LET rp == repo["L1"]
  IN /\ \A k \in 2..Len(rp.objs) : \E r \in Reqs : ChangedPaths(rp, k) = {RacePath[r]}
     /\ (\A r \in Reqs : req[r].pc = "done") =>
           /\ Len(rp.objs) = 1 + Cardinality(Reqs)
           /\ Len(commits) = Cardinality(Reqs)

\* The critical sections: createCommit from after its bootstrap-and-checkout
\* step up to the branch update, createBranch from after its bootstrap check
\* up to the branch document.
InCritical(r) ==
  \/ req[r].pc \in {"cc_log", "cc_write", "cc_add", "cc_status", "cc_commit",
                    "cc_record", "cc_save"}
  \/ req[r].pc \in {"cb_create", "cb_record"}
  \/ req[r].op = "CreateBranch" /\ req[r].pc \in {"init1", "init2"}

\* C3: two requests on the same repository location are never both inside
\* their critical sections.
C3_MutualExclusion ==
  \A r1 \in Reqs, r2 \in Reqs :
     (r1 # r2 /\ InCritical(r1) /\ InCritical(r2)) => req[r1].loc # req[r2].loc

\* The Commit documents of notebook n and branch b that precede document j.
EarlierOnBranch(j) ==
  {i \in 1..(j - 1) : /\ commits[i].notebook = commits[j].notebook
                      /\ commits[i].branch = commits[j].branch}

MaxOf(S) == CHOOSE x \in S : \A y \in S : y <= x

OnBranch(n, b) == {i \in RecordIds : commits[i].notebook = n /\ commits[i].branch = b}

\* C4: the Commit documents of a branch form a chain, each parentHash equal
\* to the hash stored in the preceding document of the branch, and between
\* calls the Branch document's lastCommitHash equals the hash of the branch's
\* latest Commit document.
C4_CommitChain ==
  /\ \A j \in RecordIds :
        EarlierOnBranch(j) # {} =>
           commits[j].parentHash = commits[MaxOf(EarlierOnBranch(j))].hash
  /\ (\A r \in Reqs : ~InFlight(r)) =>
        \A d \in branches :
           OnBranch(d.notebook, d.name) # {} =>
              d.lastCommitHash = commits[MaxOf(OnBranch(d.notebook, d.name))].hash

\* C5: the branch a Commit document names is the branch that its commit
\* advanced in the repository.
C5_RecordBranchIsAdvancedBranch ==
  \A i \in RecordIds :
     Resolve(commits[i].hash) \in 1..Len(RepoOf(commits[i].notebook).objs) =>
        RepoOf(commits[i].notebook).objs[Resolve(commits[i].hash)].on = commits[i].branch

\* C6: once a commit has been made on a non-default branch, getFileTree asked
\* for 'main' answers with the files at main's own head, whichever branch is
\* checked out.
C6_BranchIsolation ==
  \A r \in Reqs :
     ( /\ req[r].op = "GetFileTree" /\ req[r].pc = "done" /\ req[r].result = "ok"
       /\ req[r].branch = "main"
       /\ \E k \in 1..Len(RepoOf(req[r].nb).objs) : RepoOf(req[r].nb).objs[k].on # "main" )
     => req[r].tree = PathsOf(TreeOf(RepoOf(req[r].nb), RepoOf(req[r].nb).refs["main"]))

\* C7: the Commit document of the first createCommit of a notebook has no
\* parent hash; only documents that follow an earlier createCommit have one.
C7_FirstCommitHasNoParent ==
  \A i \in RecordIds :
     (\A j \in 1..(i - 1) : commits[j].notebook # commits[i].notebook)
        => commits[i].parentHash = NoHash

\* What createCommit must leave alone when it refuses with NothingToCommit.
CommitRefusedUntouched(r) ==
  /\ req'[r].result = "NothingToCommit"
  /\ Len(repo'[req[r].loc].objs) = req[r].snap.objs
  /\ Len(commits') = req[r].snap.recs
  /\ \A d \in branches' :
        (d.notebook = req[r].nb /\ d.name = req[r].branch)
           => d.lastCommitHash = req[r].snap.last

\* C8 as claimed: a createCommit whose files all equal the working tree (also
\* a working tree that a saved, uncommitted file changed) is refused with
\* NothingToCommit and leaves commit count, Commit documents and
\* lastCommitHash as they were.
C8_SameAsWorkingTreeRefused ==
  [][\A r \in Reqs :
       (Completes(r, "CreateCommit") /\ req[r].snap.same) => CommitRefusedUntouched(r)]_vars

\* C8 amended: a createCommit that runs alone, with nothing staged and files
\* that all equal the content committed at the head of the checked-out
\* branch, is refused with NothingToCommit and leaves commit count, Commit
\* documents and lastCommitHash as they were.
C8_SameAsHeadRefused ==
  [][\A r \in Reqs :
       (Completes(r, "CreateCommit") /\ req[r].snap.clean) => CommitRefusedUntouched(r)]_vars

\* A createCommit of content equal to the head commit has been refused.
C8_Witness ==
  \E r \in Reqs :
     /\ req[r].op = "CreateCommit" /\ req[r].pc = "done"
     /\ req[r].result = "NothingToCommit" /\ req[r].snap.clean
     /\ commits # <<>>

C10_NoBranchBeforeFirstCommit ==
  [][\A r \in Reqs :
       (Completes(r, "CreateBranch") /\ req[r].snap.recs = 0 /\ req[r].snap.objs <= 1) =>
          /\ req'[r].result = "NoCommitsYet"
          /\ {d \in branches' : d.notebook = req[r].nb /\ d.name = req[r].branch} = {}
          /\ repo'[req[r].loc].refs[req[r].branch] = 0
          /\ Len(repo'[req[r].loc].objs) = req[r].snap.objs]_vars


\* A body with an entry whose path is empty or missing.
HasBadPath(raw) == \E i \in 1..Len(raw) : raw[i].path \in {"", Missing}

EmptyContentOnly(raw) ==
  /\ Len(raw) >= 1
  /\ \A i \in 1..Len(raw) : raw[i].path \notin {"", Missing} /\ raw[i].content # Missing
  /\ \E i \in 1..Len(raw) : raw[i].content = ""

\* C12: a createCommit whose files all have a non-empty path and a present
\* content, some of it the empty string, passes validation: it is never
\* answered ValidationFailed.
C12_EmptyContentAccepted ==
  \A r \in Reqs :
     (req[r].op = "CreateCommit" /\ EmptyContentOnly(req[r].raw))
        => req[r].result # "ValidationFailed"


\* C13: a createCommit whose checkout failed in a repository that has
\* commits (the branch ref is missing, or the working tree blocks the
\* switch) ends in an error, with no new repository commit and no new Commit
\* document.
C13_CheckoutFailureAborts ==
  [][\A r \in Reqs :
       (Completes(r, "CreateCommit") /\ req[r].snap.blocked) =>
          /\ req'[r].result = "error"
          /\ Len(repo'[req[r].loc].objs) = req[r].snap.objs
          /\ Len(commits') = req[r].snap.recs]_vars


DefaultDocs(n) == {d \in branches : d.notebook = n /\ d.isDefault}

\* Notebook n is in the index without its default Branch document and no
\* createNotebook is at work on it.
Stranded(n) ==
  /\ FindNotebook(n) # {}
  /\ DefaultDocs(n) = {}
  /\ \A r \in Reqs : ~(req[r].op = "CreateNotebook" /\ req[r].nb = n /\ InFlight(r))

\* Notebook n is set up: a repository at its location and exactly one
\* default Branch document.
SetUp(n) ==
  /\ FindNotebook(n) # {}
  /\ isRepoInitialized(repo[LocOf(n)])
  /\ Cardinality(DefaultDocs(n)) = 1

\* C14: a notebook whose createNotebook failed after the Notebook document
\* was written (the document is still there, the default Branch document is
\* not) gets set up by the operations that follow: a repository at its
\* location and exactly one default Branch document.
C14_FailedSetupCompletes ==
  \A n \in NotebookIds : Stranded(n) ~> SetUp(n)

\* No step of any handler takes a notebook out of that state other than by
\* deleting it: the set-up is never completed.
C14_StrandedForGood ==
  [][\A n \in NotebookIds :
       Stranded(n) => (Stranded(n)' \/ FindNotebook(n)' = {})]_vars


\* C15: the repository commit behind every Commit document is authored with
\* the identity of the user whose request made it, under every interleaving
\* of createCommit requests by different users and of initRepo.
C15_AuthorIsRequester ==
  \A i \in RecordIds :
     Resolve(commits[i].hash) \in 1..Len(RepoOf(commits[i].notebook).objs) =>
        RepoOf(commits[i].notebook).objs[Resolve(commits[i].hash)].author
           = commits[i].author


Quiet == \A r \in Reqs : ~InFlight(r)

RecordNames(n) == {d.name : d \in {x \in branches : x.notebook = n}}

RefNames(rp) == {b \in BranchNames : rp.refs[b] # 0}

\* C16: whenever no request is in flight, every notebook whose repository
\* is bootstrapped has the same branch names in its Branch documents as
\* branch refs in its repository.
C16_IndexMatchesRefs ==
  Quiet =>
     \A d \in notebooks :
        isRepoInitialized(repo[d.gitRepoPath]) =>
           RecordNames(d.id) = RefNames(repo[d.gitRepoPath])

\* C17: whenever no request is in flight, every Notebook document has
\* exactly one Branch document flagged default.
C17_OneDefaultBranch ==
  Quiet => \A d \in notebooks : Cardinality(DefaultDocs(d.id)) = 1


\* C18: at most one Branch document exists per notebook and name in every
\* state, also when two createBranch requests for the same name have both
\* passed the existence check; and a createBranch for a name that has a
\* Branch document when the request arrives is answered AlreadyExists in its
\* first step, leaving notebooks, branches, commits and repositories as they
\* were.  (The loser of a race arrived before the name existed; it is the
\* index that refuses its document.)
C18_BranchNamesUnique ==
  [][/\ \A d \in branches', e \in branches' :
          (d.notebook = e.notebook /\ d.name = e.name) => d = e
     /\ \A r \in Reqs :
          ( /\ req[r].pc = "idle" /\ req'[r].op = "CreateBranch"
            /\ \E d \in branches : d.notebook = req'[r].nb /\ d.name = req'[r].branch )
          => /\ req'[r].pc = "done"
             /\ req'[r].result = "AlreadyExists"
             /\ UNCHANGED <<notebooks, branches, commits, repo>>]_vars

\* Two createBranch requests for the same name passed the existence check
\* and created the ref; one has written its document, the other is about to.
C18_Witness ==
  \E r \in Reqs, q \in Reqs :
     /\ req[r].op = "CreateBranch" /\ req[r].pc = "done" /\ req[r].result = "ok"
     /\ req[q].op = "CreateBranch" /\ req[q].pc = "cb_record"
     /\ req[q].nb = req[r].nb /\ req[q].branch = req[r].branch
     /\ FindBranch(req[r].nb, req[r].branch) # {}


\* createBranch request r answers with success in this step: the document
\* it writes takes the source document's lastCommitHash, and the new ref is
\* at the commit of the source ref.
BranchCopiesSource(r) ==
  LET rp == repo'[req[r].loc]
  IN /\ \E d \in branches' \ branches :
          /\ d.notebook = req[r].nb /\ d.name = req[r].branch
          /\ d.lastCommitHash = LastOf(req[r].nb, req[r].from)
     /\ rp.refs[req[r].branch] = rp.refs[req[r].from]

CreatesBranch(r) == Completes(r, "CreateBranch") /\ req'[r].result = "ok"

\* C19 as claimed: after a successful createBranch the new Branch document
\* has the source document's lastCommitHash, the new ref is at the source
\* ref's commit, and so the commit the new document names (when it names
\* one) is the commit its ref points at.
C19_NewBranchRecordMatchesRef ==
  [][\A r \in Reqs :
       CreatesBranch(r) =>
          /\ BranchCopiesSource(r)
          /\ \A d \in branches' \ branches :
                d.lastCommitHash # NoHash =>
                   Resolve(d.lastCommitHash) = repo'[req[r].loc].refs[d.name]]_vars

\* C19 amended: after a successful createBranch the new Branch document has
\* the source document's lastCommitHash and the new ref is at the source
\* ref's commit; the new document names the commit its ref points at
\* exactly when the source document named the commit of the source ref.
C19_NewBranchCopiesSource ==
  [][\A r \in Reqs :
       CreatesBranch(r) =>
          /\ BranchCopiesSource(r)
          /\ \A d \in branches' \ branches :
                (Resolve(d.lastCommitHash) = repo'[req[r].loc].refs[d.name])
                   <=> (Resolve(LastOf(req[r].nb, req[r].from))
                           = repo'[req[r].loc].refs[req[r].from])]_vars

\* A createBranch has succeeded from a source whose document names a commit.
C19_Witness ==
  \E r \in Reqs :
     /\ req[r].op = "CreateBranch" /\ req[r].pc = "done" /\ req[r].result = "ok"
     /\ \E d \in FindBranch(req[r].nb, req[r].branch) : d.lastCommitHash # NoHash


\* C20: a deleteBranch on the default branch is refused in its first step,
\* leaving the Branch documents, the repositories (refs and checked-out
\* branch) and everything else in the index as they were; and no step of any
\* request removes a default Branch document whose notebook is still in the
\* index.
C20_DefaultBranchKept ==
  [][/\ \A r \in Reqs :
          ( /\ req[r].pc = "idle" /\ req'[r].op = "DeleteBranch"
            /\ \E d \in branches :
                  d.notebook = req'[r].nb /\ d.name = req'[r].branch /\ d.isDefault )
          => /\ req'[r].pc = "done"
             /\ req'[r].result = "Refused"
             /\ UNCHANGED <<notebooks, branches, commits, repo>>
     /\ \A d \in branches :
          (d.isDefault /\ \E k \in notebooks' : k.id = d.notebook)
          => \E e \in branches' :
                e.id = d.id /\ e.notebook = d.notebook /\ e.name = d.name /\ e.isDefault]_vars

\* A deleteBranch on the default branch has been refused while the notebook
\* also has a second branch, and the default Branch document is in place.
C20_Witness ==
  \E r \in Reqs :
     /\ req[r].op = "DeleteBranch" /\ req[r].pc = "done" /\ req[r].result = "Refused"
     /\ req[r].branch = "main"
     /\ DefaultDocs(req[r].nb) # {}
     /\ RecordNames(req[r].nb) = BranchNames


\* The Branch document that Commit document c was made on is gone.
OwnerGone(c) == ~\E d \in branches : d.notebook = c.notebook /\ d.id = c.branchId

Orphans == {i \in RecordIds : OwnerGone(commits[i])}

\* C21: Commit documents are append-only: every step of every handler
\* (createCommit, createBranch, deleteBranch, checkoutBranch, the file save,
\* deleteNotebook, failures at any step) leaves each existing Commit document
\* in place and unchanged; and a Commit document whose Branch document has
\* been deleted is still listed by getCommits for its notebook (within the
\* listing's limit) and found by getCommitByHash with its notebook and hash,
\* in the queries as in the answers the handlers have given.
C21_CommitsAppendOnly ==
  /\ [][/\ Len(commits') >= Len(commits)
         /\ SubSeq(commits', 1, Len(commits)) = commits]_vars
  /\ [](\A i \in Orphans :
          /\ commits[i] \in getCommits(commits[i].notebook, NoFilter, DefaultLimit)
          /\ getCommitByHash(commits[i].notebook, commits[i].hash) = {commits[i]}
          /\ \A r \in Reqs :
                ( /\ req[r].pc = "done" /\ req[r].result # "StorageUnavailable"
                  /\ req[r].nb = commits[i].notebook ) =>
                   /\ (req[r].op = "GetCommits" /\ req[r].branch = NoName)
                         => commits[i] \in req[r].found
                   /\ (req[r].op = "GetCommitByHash" /\ req[r].hash = commits[i].hash)
                         => req[r].found = {commits[i]})

\* deleteBranch has just removed the Branch document of a branch that Commit
\* documents were made on.
C21_Witness ==
  \E r \in Reqs :
     /\ req[r].op = "DeleteBranch" /\ req[r].pc = "done" /\ req[r].result = "ok"
     /\ \E i \in Orphans :
           commits[i].branch = req[r].branch /\ commits[i].notebook = req[r].nb


\* C22: when deleteNotebook answers with success, the Notebook document is
\* gone and no repository is left at the location the notebook had.
C22_RepositoryReclaimed ==
  [][\A r \in Reqs :
       (Completes(r, "DeleteNotebook") /\ req'[r].result = "ok") =>
          /\ {d \in notebooks' : d.id = req[r].nb} = {}
          /\ ~isRepoInitialized(repo'[req[r].loc])]_vars


\* C23: in every state no two Notebook documents have the same repository
\* location, and no step changes the location of a Notebook document that
\* stays in the index; for notebooks made by createNotebook and by fork, two
\* forks within one millisecond included.
C23_LocationStableAndUnique ==
  [][/\ \A d \in notebooks', e \in notebooks' :
          d.gitRepoPath = e.gitRepoPath => d.id = e.id
     /\ \A d \in notebooks, e \in notebooks' :
          d.id = e.id => d.gitRepoPath = e.gitRepoPath]_vars


\* What bootstrap must leave alone: commits, branch refs, checked-out branch
\* and working-tree files.
SameRepository(a, b) ==
  a.objs = b.objs /\ a.refs = b.refs /\ a.head = b.head /\ a.wt = b.wt

\* C24: initRepo on a location whose repository has at least one commit, run
\* by any handler (createBranch's "ensure repo is initialized" step among
\* them), leaves the repository's commits, branch refs, checked-out branch
\* and working-tree files exactly as they were, in each of its two halves.
C24_BootstrapIdempotent ==
  [][\A r \in Reqs :
       ( /\ req[r].pc \in {"init1", "init2"}
         /\ req'[r].pc \notin {"init1", "init2", "done"}
            \/ (req[r].pc = "init1" /\ req'[r].pc = "init2")
         /\ Len(repo[req[r].loc].objs) >= 1 )
       => SameRepository(repo'[req[r].loc], repo[req[r].loc])]_vars


\* A segment that shows its file as newly added.
PureAddition(seg, p) ==
  Len(seg) >= 2 /\ seg[1] = HeaderLine(p) /\ seg[2] = Line("new file mode")

\* The segment git gives path p between two trees, none when p is the same.
Expected(p, from, to) ==
  IF from[p] = to[p] THEN <<>>
  ELSE FileDiff(p, from, to)
       \o (IF \E i \in 1..Len(PathOrder) :
                 /\ PathOrder[i] = p
                 /\ \A j \in (i + 1)..Len(PathOrder) : from[PathOrder[j]] = to[PathOrder[j]]
           THEN <<Blank>> ELSE <<>>)

\* C25: getCommitDiff on a Commit document without parentHash diffs git's
\* empty tree against the document's hash and every file of the document's
\* filesChanged comes back as a pure addition; on a document with a
\* parentHash it diffs that parent against the document's hash, and every
\* file comes back with its part of that diff.
C25_DiffAgainstParentOrEmptyTree ==
  [][\A r \in Reqs :
       (Completes(r, "GetCommitDiff") /\ req'[r].result = "ok") =>
          LET c == CHOOSE x \in req[r].found : TRUE
              rp == repo[req[r].loc]
              to == TreeOf(rp, Resolve(c.hash))
              ans == req'[r].raw
          IN /\ req'[r].hash = c.hash
             /\ Len(ans) = Cardinality(c.filesChanged)
             /\ {ans[i].path : i \in 1..Len(ans)} = c.filesChanged
             /\ IF c.parentHash = NoHash
                THEN /\ req'[r].parent = EmptyTreeHash
                     /\ \A i \in 1..Len(ans) : PureAddition(ans[i].diff, ans[i].path)
                ELSE /\ req'[r].parent = c.parentHash
                     /\ \A i \in 1..Len(ans) :
                           ans[i].diff = Expected(ans[i].path,
                                                  TreeOf(rp, Resolve(c.parentHash)), to)]_vars

\* getCommitDiff has answered for a Commit document without parentHash.
C25_Witness ==
  \E r \in Reqs :
     /\ req[r].op = "GetCommitDiff" /\ req[r].pc = "done" /\ req[r].result = "ok"
     /\ req[r].parent = EmptyTreeHash
     /\ Len(req[r].raw) >= 1


\* C26: a getFileTree that found the notebook's repository without any
\* commit (no directory, or a directory initialised without commits) answers
\* with an empty tree and not with an error.
C26_EmptyTreeWithoutCommits ==
  [][\A r \in Reqs :
       (Completes(r, "GetFileTree") /\ req[r].snap.objs = 0) =>
          /\ req'[r].result = "ok"
          /\ req'[r].tree = {}]_vars


\* The nodes of a tree, each with the path of its parent (empty at the top)
\* and its position among its siblings.
RECURSIVE NodesOf(_, _)
NodesOf(level, parent) ==
  UNION {{[node |-> level[k], parent |-> parent, pos |-> k]}
         \cup NodesOf(level[k].children, level[k].path) : k \in 1..Len(level)}

\* The position in the listing of the first path that runs through path p.
FirstSeen(paths, p) ==
  CHOOSE i \in 1..Len(paths) :
     IsPrefix(p, paths[i]) /\ \A j \in 1..(i - 1) : ~IsPrefix(p, paths[j])

WellFormedTree(paths, tree) ==
  LET N == NodesOf(tree, <<>>)
  IN /\ \A a \in N, b \in N :
          (a.parent = b.parent /\ a.node.name = b.node.name) => a = b
     /\ \A a \in N : a.node.path = Append(a.parent, a.node.name)
     /\ \A a \in N, b \in N :
          (a.parent = b.parent /\ a.pos < b.pos)
             => FirstSeen(paths, a.node.path) < FirstSeen(paths, b.node.path)
     /\ {a.node.path : a \in {x \in N : x.node.type = "file"}}
          = {paths[i] : i \in 1..Len(paths)}
     /\ \A a \in N : a.node.type = "file" => a.node.children = <<>>

\* C27: the tree built from a listing is a function of the listing (building
\* it again gives the same tree) and is well formed: no two siblings with one
\* name, every node's path its parent's path followed by its own name (a
\* top-level node's path its name), children in the order in which the
\* listing first runs through them, and the file nodes' paths exactly the
\* listed paths.
C27_TreeWellFormed ==
  \A r \in Reqs :
     (req[r].op = "GetFileTree" /\ req[r].pc = "done" /\ req[r].result = "ok") =>
        /\ req[r].found = buildTree(req[r].raw)
        /\ WellFormedTree(req[r].raw, req[r].found)

\* A tree has been built from three paths, with a directory that holds two
\* files and a file next to it.
C27_Witness ==
  \E r \in Reqs :
     /\ req[r].op = "GetFileTree" /\ req[r].pc = "done"
     /\ Len(req[r].raw) = 3
     /\ \E k \in 1..Len(req[r].found) :
           /\ req[r].found[k].type = "directory"
           /\ Len(req[r].found[k].children) = 2
     /\ \E k \in 1..Len(req[r].found) : req[r].found[k].type = "file"


\* C28: once no request is in flight, the Branch document of a branch that
\* createCommit requests have answered for with success names the commit at
\* the head of that branch in the repository, whatever the order in which
\* concurrent requests saved the document.
C28_LagIsTransient ==
  Quiet =>
     \A d \in branches :
        (\E r \in Reqs :
            /\ req[r].op = "CreateCommit" /\ req[r].pc = "done" /\ req[r].result = "ok"
            /\ req[r].nb = d.notebook /\ req[r].branch = d.name)
        => Resolve(d.lastCommitHash) = RepoOf(d.notebook).refs[d.name]


IsHeader(l) == l.kind = "diff --git"

\* The header lines' positions, and the lines from the header at position i
\* up to the line before the next header.
HeadersOf(t) == {i \in 1..Len(t) : IsHeader(t[i])}

SegmentAt(t, i) ==
  LET later == {j \in HeadersOf(t) : j > i}
      stop == IF later = {} THEN Len(t) + 1
              ELSE CHOOSE j \in later : \A k \in later : j <= k
  IN SubSeq(t, i, stop - 1)

SegmentOf(t, f) ==
  IF \E i \in HeadersOf(t) : t[i].file = f
  THEN SegmentAt(t, CHOOSE i \in HeadersOf(t) : t[i].file = f)
  ELSE <<>>

SplitsByFile(t, fc, ans) ==
  LET map == parseDiffByFile(t)
  IN /\ DOMAIN map = {t[i].file : i \in HeadersOf(t)}
     /\ \A i \in HeadersOf(t) : map[t[i].file] = SegmentAt(t, i)
     /\ Len(ans) = Len(fc)
     /\ \A k \in 1..Len(fc) :
          ans[k].path = fc[k] /\ ans[k].diff = SegmentOf(t, fc[k])

ParseDone(r) == req[r].op = "GetCommitDiff" /\ req[r].pc = "done" /\ req[r].result = "ok"

\* C29: parseDiffByFile maps the header line of every file to a segment
\* under the file's path, made of the header and every line after it up to,
\* not including, the next header; lines before the first header are in no
\* segment and the empty text gives the empty map; and getCommitDiff answers
\* with one entry per file of the Commit document, in the document's order,
\* each with the file's segment, empty when the text has none for the file.
C29_DiffSplitByFile ==
  \A r \in Reqs :
     ParseDone(r) => SplitsByFile(req[r].raw, req[r].tree, req[r].found)

\* The same holds of every text none of whose headers git has quoted.
C29_PlainHeadersSplit ==
  \A r \in Reqs :
     (ParseDone(r) /\ \A i \in HeadersOf(req[r].raw) : req[r].raw[i].path # NoName)
        => SplitsByFile(req[r].raw, req[r].tree, req[r].found)


BranchCreated(r) == req[r].op = "CreateBranch" /\ req[r].pc = "done" /\ req[r].result = "ok"

TreeListed(r) == req[r].op = "GetFileTree" /\ req[r].pc = "done" /\ req[r].result = "ok"

\* C30: when createBranch has succeeded the repository has the new branch
\* checked out, and, requests running one at a time, a file tree asked for
\* 'main' (which the controller turns into HEAD) lists the tip of the branch
\* that is checked out, not the tip of main.
C30_CreateBranchChecksOut ==
  \A r \in Reqs :
     /\ BranchCreated(r) =>
           /\ RepoOf(req[r].nb).head = req[r].branch
           /\ RepoOf(req[r].nb).refs[req[r].branch] # 0
     /\ (TreeListed(r) /\ req[r].branch = "main") =>
           req[r].tree = PathsOf(TreeOf(RepoOf(req[r].nb), HeadId(RepoOf(req[r].nb))))

\* createBranch has just succeeded for a branch other than main.
C30_Witness ==
  \E r \in Reqs :
     /\ BranchCreated(r)
     /\ req[r].branch # "main"
     /\ RepoOf(req[r].nb).head = req[r].branch

\* A file tree asked for 'main' has listed the tip of the created branch,
\* which has a file that main's tip lacks.
C30_ListedOffMain ==
  \E r \in Reqs :
     /\ TreeListed(r)
     /\ req[r].branch = "main"
     /\ RepoOf(req[r].nb).head # "main"
     /\ req[r].tree # PathsOf(TreeOf(RepoOf(req[r].nb), RepoOf(req[r].nb).refs["main"]))

====
